---- MODULE Spec2Model ----
(***************************************************************************)
(* Verification model of two QTLab drivers:                                *)
(*   - lib/dll_support/andor.py : spectrum acquisition with bad-pixel      *)
(*     detection and bounded retry (get_spectrum, get_spectrum_adv,        *)
(*     wait_idle);                                                         *)
(*   - instrument_plugins/x_Yokogawa_7651.py : GPIB voltage source driver  *)
(*     with bounded, ramped parameters.                                    *)
(* The two drivers do not share state; each has its own specification      *)
(* (SpecA, SpecY) over the common variable tuple.                          *)
(***************************************************************************)
EXTENDS Integers, Sequences, FiniteSets, TLC

(***************************************************************************)
(* ---------------------------  ANDOR  ----------------------------------- *)
(***************************************************************************)

\* Bounds of the acquisition model.
XPix == 6                  \* detector width reported by GetDetector
MaxTries == 2              \* largest ntries passed to get_spectrum_adv
MaxDelay == 2              \* largest wait_idle delay, in 0.5 s sleeps

\* Program constants of andor.py.
LowSignalFloor == 100      \* "if maxval < 100"
DiagHalf == 5              \* range(maxpos-5, maxpos+5)
DefaultThreshPct == 15     \* thresh=0.15, as a percentage

\* Sample values a pixel can take.  30 = 200 * 0.15 exactly (also in IEEE
\* double arithmetic), so the >= comparison is exercised at its boundary.
FrameVals == {0, 30, 200}
Pix(n) == 0 .. (n - 1)

\* The frames the camera can deliver: a zero baseline carrying one feature
\* of up to three adjacent samples a, b, c centred on pixel c0 (clipped at
\* the ends of the detector).
Feature(c0, a, b, c) ==
    [p \in Pix(XPix) |->
        IF p = c0 - 1 THEN a ELSE IF p = c0 THEN b ELSE IF p = c0 + 1 THEN c
        ELSE 0]
Frames ==
    {Feature(c0, a, b, c) : c0 \in Pix(XPix), a \in FrameVals,
                            b \in FrameVals, c \in FrameVals}

\* "background=None" is the empty tuple; otherwise a per-pixel baseline.
NoBackground == << >>
Backgrounds == {NoBackground, [p \in Pix(XPix) |-> 10]}

\* thresh as a percentage: the default 0.15 and 1.0.
ThreshPcts == {DefaultThreshPct, 100}

Unbound == << >>           \* a Python local that was never assigned

VARIABLES
    op,          \* the top-level call being executed
    pcA,         \* position in the andor call
    ntries,      \* get_spectrum_adv argument
    background,  \* get_spectrum_adv argument
    thresh,      \* get_spectrum_adv argument (percent)
    delay,       \* wait_idle argument (in sleeps of 0.5 s)
    elapsed,     \* time.time() - start in wait_idle (in sleeps of 0.5 s)
    i,           \* loop index of "for i in range(ntries)"
    xpix,        \* get_spectrum local
    data,        \* buffer returned by get_acquired_data
    spec,        \* get_spectrum_adv local
    maxpos,      \* get_spectrum_adv local: <<p>> once assigned
    verdict,     \* outcome of the last evaluation of the heuristic
    ret,         \* value returned by the call
    warned,      \* 'Warning: returning spectrum with possibly bad pixel'
    exc,         \* exception that ended the call
    dev,         \* camera: "idle", "acquiring" or "error"
    devData,     \* camera: frame in the acquisition buffer (<<>>: none)
    owner,       \* camera: "self" if the running acquisition was started
                 \*         by this call, "other" if by someone else
    nstart,      \* number of StartAcquisition calls
    nfetch       \* number of GetAcquiredData calls

varsA == << op, pcA, ntries, background, thresh, delay, elapsed, i, xpix,
            data, spec, maxpos, verdict, ret, warned, exc, dev, devData,
            owner, nstart, nfetch >>

VARIABLES
    constructed, \* "no", "yes" or "failed": state of x_Yokogawa_7651.__init__
    call,        \* the top-level call being (or last) executed
    todo,        \* continuation of the running call: statements still to run
    err,         \* "none" while running, then "ok" or the exception raised
    io,          \* Device Channel operations issued by the running call
    sub,         \* values handed to do_set_voltage by the running call
    cache,       \* last-known value of each parameter: <<v>>, or <<>> unknown
    pre,         \* the cache when the running call was entered
    retv,        \* value returned by the last do_get_* function
    devs,        \* instrument: settings in effect
    prog,        \* instrument: settings programmed, in effect after 'E'
    calls,       \* number of top-level calls made
    gets         \* parameters whose get was entered by the running call

varsY == << constructed, call, todo, err, io, sub, cache, pre, retv, devs,
            prog, calls, gets >>

vars == << varsA, varsY >>

----------------------------------------------------------------------------
\* numpy helpers

Zeros(n) == [p \in Pix(n) |-> 0]                       \* np.zeros(n)

FLen(f) == Cardinality(DOMAIN f)                       \* len(f)

\* spec -= background
Subtract(f, bg) ==
    IF bg = NoBackground THEN f ELSE [p \in DOMAIN f |-> f[p] - bg[p]]

\* np.max(f), f not empty
NpMax(f) == CHOOSE m \in {f[p] : p \in DOMAIN f} : \A p \in DOMAIN f : f[p] <= m

\* np.argmax(f): the first position of the maximum
NpArgmax(f) ==
    CHOOSE p \in DOMAIN f :
        /\ f[p] = NpMax(f)
        /\ \A q \in DOMAIN f : f[q] = NpMax(f) => p <= q

\* f[k] with Python indexing: a negative index counts from the end; the
\* index is valid iff -len <= k < len.
ValidIndex(f, k) == (0 - FLen(f)) <= k /\ k < FLen(f)
At(f, k) == IF k < 0 THEN f[k + FLen(f)] ELSE f[k]

\* (variant: strict comparison)
AtLeastMinval_strict(v, maxval, pct) == 100 * v > maxval * pct

\* v >= maxval * thresh, with thresh = pct / 100
AtLeastMinval(v, maxval, pct) == 100 * v >= maxval * pct

\* Lines 343-344: the acceptance test, with Python's short-circuit order.
NeighbourTest(f, pct) ==
    LET maxval == NpMax(f)
        mp == NpArgmax(f)
    IN  \/ (IF mp = 0 THEN TRUE
            ELSE AtLeastMinval(At(f, mp - 1), maxval, pct))
        \/ (IF mp = FLen(f) - 1 THEN TRUE
            ELSE AtLeastMinval(At(f, mp + 1), maxval, pct))

\* Lines 350-351: the diagnostic loop reads spec[i] for every i in
\* range(maxpos-5, maxpos+5); it completes iff every index is valid.
DiagIndices(mp) == (mp - DiagHalf) .. (mp + DiagHalf - 1)
DiagCompletes(f, mp) == \A k \in DiagIndices(mp) : ValidIndex(f, k)

----------------------------------------------------------------------------
\* Positions at which the call has ended.
Terminal == {"done", "raised"}

\* The call is entered.
CallA ==
    /\ pcA = "call"
    /\ pcA' = IF op = "wait_idle" THEN "wi_test" ELSE "for"
    /\ UNCHANGED << op, ntries, background, thresh, delay, elapsed, i, xpix,
                    data, spec, maxpos, verdict, ret, warned, exc, dev,
                    devData, owner, nstart, nfetch >>
    /\ UNCHANGED varsY

\* (variant: one iteration too many)
ForA_offByOne ==
    /\ pcA = "for"
    /\ pcA' = IF i <= ntries THEN "getdet" ELSE "diag"
    /\ UNCHANGED << op, ntries, background, thresh, delay, elapsed, i, xpix,
                    data, spec, maxpos, verdict, ret, warned, exc, dev,
                    devData, owner, nstart, nfetch >>
    /\ UNCHANGED varsY

\* Line 330: for i in range(ntries)
ForA ==
    /\ pcA = "for"
    /\ pcA' = IF i < ntries THEN "getdet" ELSE "diag"
    /\ UNCHANGED << op, ntries, background, thresh, delay, elapsed, i, xpix,
                    data, spec, maxpos, verdict, ret, warned, exc, dev,
                    devData, owner, nstart, nfetch >>
    /\ UNCHANGED varsY

\* Lines 317, 254-257: xpix, ypix = get_detector(); on a failing call the
\* c_int32(0) output arguments keep their initial value.
GetDetector ==
    /\ pcA = "getdet"
    /\ xpix' = IF dev = "error" THEN 0 ELSE XPix
    /\ pcA' = "start"
    /\ UNCHANGED << op, ntries, background, thresh, delay, elapsed, i,
                    data, spec, maxpos, verdict, ret, warned, exc, dev,
                    devData, owner, nstart, nfetch >>
    /\ UNCHANGED varsY

\* Lines 318, 294-296: start_acquisition(); the return code is dropped.
\* An idle camera starts acquiring; a camera that is already acquiring or
\* is in error refuses (DRV_ACQUIRING / an error code) and is unchanged.
StartAcquisition ==
    /\ pcA = "start"
    /\ dev' = IF dev = "idle" THEN "acquiring" ELSE dev
    /\ owner' = IF dev = "idle" THEN "self" ELSE owner
    /\ devData' = IF dev = "idle" THEN << >> ELSE devData
    /\ nstart' = nstart + 1
    /\ pcA' = "poll"
    /\ UNCHANGED << op, ntries, background, thresh, delay, elapsed, i, xpix,
                    data, spec, maxpos, verdict, ret, warned, exc, nfetch >>
    /\ UNCHANGED varsY

\* Line 319: while get_status() == DRV_ACQUIRING
PollStatus ==
    /\ pcA = "poll"
    /\ pcA' = IF dev = "acquiring" THEN "sleep" ELSE "settle"
    /\ UNCHANGED << op, ntries, background, thresh, delay, elapsed, i, xpix,
                    data, spec, maxpos, verdict, ret, warned, exc, dev,
                    devData, owner, nstart, nfetch >>
    /\ UNCHANGED varsY

\* Line 320: time.sleep(0.1)
SleepPoll ==
    /\ pcA = "sleep"
    /\ pcA' = "poll"
    /\ UNCHANGED << op, ntries, background, thresh, delay, elapsed, i, xpix,
                    data, spec, maxpos, verdict, ret, warned, exc, dev,
                    devData, owner, nstart, nfetch >>
    /\ UNCHANGED varsY

\* Line 321: time.sleep(0.2)
Settle ==
    /\ pcA = "settle"
    /\ pcA' = "fetch"
    /\ UNCHANGED << op, ntries, background, thresh, delay, elapsed, i, xpix,
                    data, spec, maxpos, verdict, ret, warned, exc, dev,
                    devData, owner, nstart, nfetch >>
    /\ UNCHANGED varsY

\* Lines 322, 311-314: get_acquired_data(xpix).  The buffer is np.zeros and
\* is filled only if the camera has a completed frame of that size; the
\* return code of GetAcquiredData is dropped.
GetAcquiredDataBuf(n) ==
    IF dev = "idle" /\ devData # << >> /\ n = XPix THEN devData ELSE Zeros(n)

GetAcquiredData ==
    /\ pcA = "fetch"
    /\ data' = GetAcquiredDataBuf(xpix)
    /\ nfetch' = nfetch + 1
    /\ pcA' = "eval"
    /\ UNCHANGED << op, ntries, background, thresh, delay, elapsed, i, xpix,
                    spec, maxpos, verdict, ret, warned, exc, dev,
                    devData, owner, nstart >>
    /\ UNCHANGED varsY

\* Lines 331-347: one pass of the loop body after get_spectrum returned.
\* np.max of an empty array (and the in-place subtraction of a background
\* of another shape) raises ValueError.
\* (variant: the low-signal shortcut is missing)
EvalOutcome_noFloor(f, pct) ==
    IF NeighbourTest(f, pct) THEN "ok" ELSE "bad"

EvalOutcome(f, pct) ==
    IF NpMax(f) < LowSignalFloor THEN "low"
    ELSE IF NeighbourTest(f, pct) THEN "ok"
    ELSE "bad"

Evaluate ==
    /\ pcA = "eval"
    /\ IF FLen(data) = 0
       THEN /\ spec' = data
            /\ exc' = "ValueError"
            /\ pcA' = "raised"
            /\ UNCHANGED << maxpos, verdict, ret, i >>
       ELSE LET s == Subtract(data, background)
                v == EvalOutcome(s, thresh)
            IN  /\ spec' = s
                /\ verdict' = v
                /\ maxpos' = IF v = "low" THEN maxpos ELSE << NpArgmax(s) >>
                /\ IF v \in {"low", "ok"}
                   THEN /\ ret' = s
                        /\ pcA' = "done"
                        /\ i' = i
                   ELSE /\ ret' = ret
                        /\ pcA' = "for"
                        /\ i' = i + 1
                /\ exc' = exc
    /\ UNCHANGED << op, ntries, background, thresh, delay, elapsed, xpix,
                    data, warned, dev, devData, owner, nstart, nfetch >>
    /\ UNCHANGED varsY

\* Lines 349-353: after the loop.  maxpos is unbound if the loop body never
\* ran (ntries = 0); the diagnostic print indexes spec around maxpos.
Diagnose ==
    /\ pcA = "diag"
    /\ warned' = TRUE
    /\ IF maxpos = Unbound
       THEN /\ exc' = "NameError"
            /\ pcA' = "raised"
            /\ ret' = ret
       ELSE IF DiagCompletes(spec, maxpos[1])
       THEN /\ exc' = exc
            /\ pcA' = "done"
            /\ ret' = spec
       ELSE /\ exc' = "IndexError"
            /\ pcA' = "raised"
            /\ ret' = ret
    /\ UNCHANGED << op, ntries, background, thresh, delay, elapsed, i, xpix,
                    data, spec, maxpos, verdict, dev, devData, owner,
                    nstart, nfetch >>
    /\ UNCHANGED varsY

\* Lines 303-309: wait_idle(delay)
WaitIdleTest ==
    /\ pcA = "wi_test"
    /\ IF elapsed < delay
       THEN IF dev = "idle"
            THEN pcA' = "done" /\ ret' = << TRUE >>
            ELSE pcA' = "wi_sleep" /\ ret' = ret
       ELSE pcA' = "done" /\ ret' = << FALSE >>
    /\ UNCHANGED << op, ntries, background, thresh, delay, elapsed, i, xpix,
                    data, spec, maxpos, verdict, warned, exc, dev,
                    devData, owner, nstart, nfetch >>
    /\ UNCHANGED varsY

WaitIdleSleep ==
    /\ pcA = "wi_sleep"
    /\ elapsed' = elapsed + 1
    /\ pcA' = "wi_test"
    /\ UNCHANGED << op, ntries, background, thresh, delay, i, xpix,
                    data, spec, maxpos, verdict, ret, warned, exc, dev,
                    devData, owner, nstart, nfetch >>
    /\ UNCHANGED varsY

\* The camera: a running acquisition completes with some frame ...
DeviceFinish ==
    /\ dev = "acquiring"
    /\ pcA \notin Terminal
    /\ dev' = "idle"
    /\ devData' \in Frames
    /\ UNCHANGED << op, pcA, ntries, background, thresh, delay, elapsed, i,
                    xpix, data, spec, maxpos, verdict, ret, warned, exc,
                    owner, nstart, nfetch >>
    /\ UNCHANGED varsY

\* ... or the camera stops answering properly (SDK calls return error codes).
DeviceFault ==
    /\ dev \in {"idle", "acquiring"}
    /\ pcA \notin Terminal \cup {"call"}
    /\ dev' = "error"
    /\ UNCHANGED << op, pcA, ntries, background, thresh, delay, elapsed, i,
                    xpix, data, spec, maxpos, verdict, ret, warned, exc,
                    devData, owner, nstart, nfetch >>
    /\ UNCHANGED varsY

ProgA ==
    \/ CallA
    \/ ForA
    \/ GetDetector
    \/ StartAcquisition
    \/ PollStatus
    \/ SleepPoll
    \/ Settle
    \/ GetAcquiredData
    \/ Evaluate
    \/ Diagnose
    \/ WaitIdleTest
    \/ WaitIdleSleep

(***************************************************************************)
(* -------------------------  YOKOGAWA 7651  ----------------------------- *)
(* Voltages are integers in microvolt, ranges in millivolt and current     *)
(* limits in milliampere.  The driver's statements are run one at a time   *)
(* from the continuation `todo`; an exception empties it.                  *)
(* The Instrument base class (get / set wrappers: access flags, bounds,    *)
(* maxstep ramping, get-after-set, value cache) is not part of the driver  *)
(* file; it is modelled from sections 4.2 and 4.3 of the specification.    *)
(***************************************************************************)

\* Bounds: constructor arguments (line 41) and the number of calls.
Step == 4000000            \* step     (4 V)
UpperLim == 12000000       \* upperlim (12 V, the default)
LowerMag == 12000000       \* -lowerlim (lowerlim = -12 V, the default)
MaxCalls == 2              \* top-level calls after construction

LowerLim == 0 - LowerMag

\* Program constants of x_Yokogawa_7651.py.
StepDelay == 10            \* delay=10
RangeMin == 10             \* minval=10e-3 V
RangeMax == 10000          \* maxval=10 V
LimitMin == 5              \* minval=5 mA
LimitMax == 120            \* maxval=120 mA
SigDigits == 7             \* '%+E': one digit before and six after the point
RangeCode30V == 6          \* "if r == 6: range = 30"

\* Declaration order of add_parameter (lines 68-78).
ParamNames == << "range", "voltage", "current_limit", "status" >>
ParamSet == {ParamNames[k] : k \in 1 .. Len(ParamNames)}

\* Lines 68-78: the descriptors.  FLAG_GETSET = FLAG_GET | FLAG_SET.
\* (variant: declared without FLAG_GET_AFTER_SET)
ParamRange_noReadback ==
    [canGet |-> TRUE, canSet |-> TRUE, getAfterSet |-> FALSE,
     bounded |-> TRUE, minval |-> RangeMin, maxval |-> RangeMax,
     ramped |-> FALSE, maxstep |-> 0, stepdelay |-> 0]

ParamRange ==
    [canGet |-> TRUE, canSet |-> TRUE, getAfterSet |-> TRUE,
     bounded |-> TRUE, minval |-> RangeMin, maxval |-> RangeMax,
     ramped |-> FALSE, maxstep |-> 0, stepdelay |-> 0]

\* (variant: the wrong constructor argument is passed as maxstep)
ParamVoltage_wrongStep ==
    [canGet |-> TRUE, canSet |-> TRUE, getAfterSet |-> TRUE,
     bounded |-> TRUE, minval |-> LowerLim, maxval |-> UpperLim,
     ramped |-> TRUE, maxstep |-> UpperLim, stepdelay |-> StepDelay]

ParamVoltage ==
    [canGet |-> TRUE, canSet |-> TRUE, getAfterSet |-> TRUE,
     bounded |-> TRUE, minval |-> LowerLim, maxval |-> UpperLim,
     ramped |-> TRUE, maxstep |-> Step, stepdelay |-> StepDelay]

\* (variant: no lower bound on the current limit)
ParamCurrentLimit_noMin ==
    [canGet |-> TRUE, canSet |-> TRUE, getAfterSet |-> FALSE,
     bounded |-> TRUE, minval |-> 0, maxval |-> LimitMax,
     ramped |-> FALSE, maxstep |-> 0, stepdelay |-> 0]

ParamCurrentLimit ==
    [canGet |-> TRUE, canSet |-> TRUE, getAfterSet |-> FALSE,
     bounded |-> TRUE, minval |-> LimitMin, maxval |-> LimitMax,
     ramped |-> FALSE, maxstep |-> 0, stepdelay |-> 0]

\* (variant: declared with FLAG_GETSET)
ParamStatus_readable ==
    [canGet |-> TRUE, canSet |-> TRUE, getAfterSet |-> FALSE,
     bounded |-> FALSE, minval |-> 0, maxval |-> 0,
     ramped |-> FALSE, maxstep |-> 0, stepdelay |-> 0]

ParamStatus ==
    [canGet |-> FALSE, canSet |-> TRUE, getAfterSet |-> FALSE,
     bounded |-> FALSE, minval |-> 0, maxval |-> 0,
     ramped |-> FALSE, maxstep |-> 0, stepdelay |-> 0]

Descriptor(name) ==
    IF name = "range" THEN ParamRange
    ELSE IF name = "voltage" THEN ParamVoltage
    ELSE IF name = "current_limit" THEN ParamCurrentLimit
    ELSE ParamStatus

\* Values a caller passes to set: in range, on the bounds, just outside, and
\* (10000004 uV) one with more significant digits than '%+E' prints.
VoltTargets ==
    {LowerLim - 1000000, LowerLim, 0, 5000000, 10000004, UpperLim, UpperLim + 1}
RangeTargets == {RangeMin - 5, RangeMin, 50, RangeMax, RangeMax + RangeMax}
LimitTargets == {LimitMin - 1, LimitMin, LimitMax, LimitMax + 1}
StatusTargets ==
    { << "o", "n" >>, << "O", "f", "f" >>, << "o", "f", "f" >>,
      << "o", "n", "e" >>, << >> }
Targets(name) ==
    IF name = "voltage" THEN VoltTargets
    ELSE IF name = "range" THEN RangeTargets
    ELSE IF name = "current_limit" THEN LimitTargets
    ELSE StatusTargets

----------------------------------------------------------------------------
\* Arithmetic and text helpers

Abs(x) == IF x < 0 THEN 0 - x ELSE x

RECURSIVE Pow10(_)
Pow10(k) == IF k <= 0 THEN 1 ELSE 10 * Pow10(k - 1)

RECURSIVE NDigits(_)
NDigits(a) == IF a < 10 THEN 1 ELSE 1 + NDigits(a \div 10)

\* '%+E' % val: the number denoted by the text, i.e. val rounded to
\* SigDigits significant decimal digits.
FmtE(val) ==
    LET a == Abs(val)
        d == NDigits(a)
        q == Pow10(d - SigDigits)
        r == ((a + (q \div 2)) \div q) * q
    IN  IF val < 0 THEN 0 - r ELSE r

\* str.upper() on the letters that occur
UpperChar(c) ==
    IF c = "o" THEN "O" ELSE IF c = "n" THEN "N" ELSE IF c = "f" THEN "F"
    ELSE IF c = "e" THEN "E" ELSE c
Upper(str) == [k \in DOMAIN str |-> UpperChar(str[k])]

\* Line 247: int(math.ceil(math.log10(math.fabs(val))) + 4), val in mV >= 1:
\* ceil(log10(val / 1000)) is the least e with val <= 1000 * 10^e.
RangeCode(val) ==
    CHOOSE r \in 1 .. 9 :
        /\ Abs(val) <= Pow10(r - 1)
        /\ r > 1 => Abs(val) > Pow10(r - 2)

\* (variant: without the "if r == 6" line)
RangeOfCode_noR6(r) == Pow10(r - 1)

\* Lines 226-230: 10**(r-4) volts, or 30 V for R6; here in mV.
RangeOfCode(r) == IF r = RangeCode30V THEN 30000 ELSE Pow10(r - 1)

----------------------------------------------------------------------------
\* Statements of the continuation

Tok(t, n, v) == [t |-> t, n |-> n, v |-> v]
W(cmd, v)    == Tok("w", cmd, v)          \* self._visainstrument.write
Ask(cmd)     == Tok("ask", cmd, 0)        \* self._visainstrument.ask
Rd           == Tok("rd", "", 0)          \* self._visainstrument.read
FwSetTok(n, v) == Tok("set", n, v)        \* self.set_<n>(v)
FwGetTok(n)    == Tok("get", n, 0)        \* self.get_<n>()
Return       == Tok("return", "", 0)

\* Lines 151-163
do_set_voltage(val) == << W("S", FmtE(val)), W("E", 0) >>

\* Lines 190-202: 'LA%f' prints six decimals; a whole number of mA is exact
do_set_current_limit(val) == << W("LA", val) >>

\* Lines 232-251
do_set_range(val) == << W("R", RangeCode(val)), W("E", 0) >>

\* (variant: without .upper())
do_set_status_accepts_caseSensitive(val) ==
    val \in { << "O", "N" >>, << "O", "F", "F" >> }

\* Lines 254-274
do_set_status_accepts(val) == Upper(val) \in { << "O", "N" >>, << "O", "F", "F" >> }
do_set_status(val) ==
    IF Upper(val) = << "O", "N" >>
    THEN << W("O", 1), W("E", 0) >>
    ELSE << W("O", 0), W("E", 0) >>

\* Lines 131-149, 204-230, 165-188: the channel traffic of the do_get_*
\* functions, followed by the parse of the reply.
do_get_voltage == << Ask("OD"), Tok("parse", "voltage", 0) >>
do_get_range ==
    << Ask("OS"), Rd, Rd, Rd, Rd, Tok("parse", "range", 0) >>
do_get_current_limit ==
    << Ask("OS"), Rd, Rd, Rd, Rd, Tok("parse", "current_limit", 0) >>
do_get(name) ==
    IF name = "voltage" THEN do_get_voltage
    ELSE IF name = "range" THEN do_get_range
    ELSE do_get_current_limit

\* (variant: a different target)
set_to_zero_other == << FwSetTok("voltage", Step) >>

\* Lines 301-311
set_to_zero == << FwSetTok("voltage", 0) >>

\* Lines 289-299, 277-287
on  == << FwSetTok("status", << "o", "n" >>) >>
off == << FwSetTok("status", << "o", "f", "f" >>) >>

\* (variant: the reads in the order of the add_parameter calls)
get_all_declared ==
    << FwGetTok("range"), FwGetTok("voltage"), FwGetTok("current_limit") >>

\* Lines 111-125
get_all == << FwGetTok("voltage"), FwGetTok("range"), FwGetTok("current_limit") >>

\* (variant: the instrument reset comes first)
reset_rcFirst == << W("RC", 0) >> \o set_to_zero \o on \o get_all

\* Lines 94-109
reset == set_to_zero \o << W("RC", 0) >> \o on \o get_all

\* (variant: the reset argument is ignored)
init_body_alwaysReset(doReset) == reset

\* Lines 88-91
init_body(doReset) == IF doReset THEN reset ELSE get_all

----------------------------------------------------------------------------
\* The instrument behind the GPIB address

\* Settings after 'RC': 0 V, range 10 mV, limit 120 mA, output off.
DevDefaults == [v |-> 0, r |-> 2, lim |-> LimitMax, out |-> 0]
\* Settings the instrument can be found in when the driver is created.
DevInits ==
    {[v |-> v0, r |-> r0, lim |-> LimitMax, out |-> 0] :
        v0 \in {0, 5000000}, r0 \in {2, 5, RangeCode30V}}

\* Effect of a command: 'S', 'R' and 'O' program a setting, 'E' puts the
\* programmed settings into effect, 'LA' and 'RC' act at once.
ProgAfter(cmd, v, p) ==
    IF cmd = "S" THEN [p EXCEPT !.v = v]
    ELSE IF cmd = "R" THEN [p EXCEPT !.r = v]
    ELSE IF cmd = "O" THEN [p EXCEPT !.out = v]
    ELSE IF cmd = "LA" THEN [p EXCEPT !.lim = v]
    ELSE IF cmd = "RC" THEN DevDefaults
    ELSE p
DevAfter(cmd, v, d, p) ==
    IF cmd = "E" THEN p
    ELSE IF cmd = "LA" THEN [d EXCEPT !.lim = v]
    ELSE IF cmd = "RC" THEN DevDefaults
    ELSE d

\* What do_get_<name> returns for the instrument's reply.
Parsed(name, d) ==
    IF name = "voltage" THEN d.v
    ELSE IF name = "range" THEN RangeOfCode(d.r)
    ELSE d.lim

----------------------------------------------------------------------------
NoCall == [op |-> "none", n |-> "", v |-> 0]
EmptyCache == [n \in ParamSet |-> << >>]

\* The driver object does not exist yet; the camera is not in use.
InitY ==
    /\ constructed = "no"
    /\ call = NoCall
    /\ todo = << >>
    /\ err = "none"
    /\ io = << >>
    /\ sub = << >>
    /\ cache = EmptyCache
    /\ pre = EmptyCache
    /\ retv = << >>
    /\ devs \in DevInits
    /\ prog = devs
    /\ calls = 0
    /\ gets = << >>
    \* the camera is not in use
    /\ op = "none"
    /\ pcA = "off"
    /\ ntries = 0
    /\ background = NoBackground
    /\ thresh = DefaultThreshPct
    /\ delay = 0
    /\ elapsed = 0
    /\ i = 0
    /\ xpix = 0
    /\ data = << >>
    /\ spec = Unbound
    /\ maxpos = Unbound
    /\ verdict = "none"
    /\ ret = << >>
    /\ warned = FALSE
    /\ exc = "none"
    /\ dev = "idle"
    /\ devData = << >>
    /\ owner = "nobody"
    /\ nstart = 0
    /\ nfetch = 0

----------------------------------------------------------------------------
\* Exceptions: nothing in the driver catches one, so the running call ends.
Raise(e) ==
    /\ todo' = << >>
    /\ err' = e
    /\ constructed' = IF constructed = "init" THEN "failed" ELSE constructed

Head1 == todo[1]
Running == todo # << >>
Is(t) == Running /\ Head1.t = t

\* Lines 41-91: x_Yokogawa_7651(name, address, reset=...)
Construct ==
    /\ constructed = "no"
    /\ \E doReset \in BOOLEAN :
          /\ call' = [op |-> "__init__",
                      n |-> IF doReset THEN "reset" ELSE "noreset", v |-> 0]
          /\ todo' = init_body(doReset) \o << Return >>
    /\ constructed' = "init"
    /\ UNCHANGED << err, io, sub, cache, pre, retv, devs, prog, calls >>
    /\ UNCHANGED gets
    /\ UNCHANGED varsA

\* A caller invokes a method of the constructed driver.
Enter(c, body) ==
    /\ constructed = "yes"
    /\ ~Running
    /\ call' = c
    /\ todo' = body \o << Return >>
    /\ err' = "none"
    /\ io' = << >>
    /\ sub' = << >>
    /\ pre' = cache
    /\ retv' = << >>
    /\ calls' = calls + 1
    /\ UNCHANGED << constructed, cache, devs, prog >>
    /\ gets' = << >>
    /\ UNCHANGED varsA

CallSet ==
    /\ calls < MaxCalls
    /\ \E name \in ParamSet : \E v \in Targets(name) :
          Enter([op |-> "set", n |-> name, v |-> v], << FwSetTok(name, v) >>)

CallGet ==
    /\ calls < MaxCalls
    /\ \E name \in ParamSet :
          Enter([op |-> "get", n |-> name, v |-> 0], << FwGetTok(name) >>)

CallGetAll ==
    /\ calls < MaxCalls
    /\ Enter([op |-> "get_all", n |-> "", v |-> 0], get_all)

CallReset ==
    /\ calls < MaxCalls
    /\ Enter([op |-> "reset", n |-> "", v |-> 0], reset)

CallSetToZero ==
    /\ calls < MaxCalls
    /\ Enter([op |-> "set_to_zero", n |-> "voltage", v |-> 0], set_to_zero)

CallOn ==
    /\ calls < MaxCalls
    /\ Enter([op |-> "on", n |-> "status", v |-> 0], on)

CallOff ==
    /\ calls < MaxCalls
    /\ Enter([op |-> "off", n |-> "status", v |-> 0], off)

\* The running call returns.
ReturnY ==
    /\ Is("return")
    /\ todo' = << >>
    /\ err' = "ok"
    /\ constructed' = IF constructed = "init" THEN "yes" ELSE constructed
    /\ UNCHANGED << call, io, sub, cache, pre, retv, devs, prog, calls >>
    /\ UNCHANGED gets
    /\ UNCHANGED varsA

\* ---- Instrument base class: set (specification 4.2) --------------------
InBounds(d, v) == ~d.bounded \/ (d.minval <= v /\ v <= d.maxval)

FwSet ==
    /\ Is("set")
    /\ LET n == Head1.n
           v == Head1.v
           d == Descriptor(n)
       IN  IF ~d.canSet THEN Raise("AccessDenied")
           ELSE IF ~InBounds(d, v) THEN Raise("OutOfRange")
           ELSE /\ todo' = (IF d.ramped THEN << Tok("ramp", n, v) >>
                            ELSE << Tok("do_set", n, v), Tok("stored", n, v) >>)
                           \o (IF d.getAfterSet THEN << FwGetTok(n) >> ELSE << >>)
                           \o Tail(todo)
                /\ UNCHANGED << err, constructed >>
    /\ UNCHANGED << call, io, sub, cache, pre, retv, devs, prog, calls >>
    /\ UNCHANGED gets
    /\ UNCHANGED varsA

\* ---- Instrument base class: ramp (specification 4.3) -------------------
\* (variant: step 2 applied to delta = 0 as well)
RampDone_never(cur, target) == FALSE

\* "a target equal to the current value performs zero writes"
RampDone(cur, target) == cur = target

\* (variant: always a full step)
RampNext_fullStep(cur, target, maxstep) ==
    IF target > cur THEN cur + maxstep ELSE cur - maxstep

\* Steps 2 and 3: the next value to write.
RampNext(cur, target, maxstep) ==
    IF Abs(target - cur) <= maxstep THEN target
    ELSE IF target > cur THEN cur + maxstep
    ELSE cur - maxstep

FwRamp ==
    /\ Is("ramp")
    /\ LET n == Head1.n
           target == Head1.v
           d == Descriptor(n)
       IN  IF cache[n] = << >>
           THEN \* step 1: last-known value unknown, read first
                todo' = << FwGetTok(n) >> \o todo
           ELSE LET cur == cache[n][1]
                    nxt == RampNext(cur, target, d.maxstep)
                IN  IF RampDone(cur, target)
                    THEN todo' = Tail(todo)
                    ELSE todo' = << Tok("do_set", n, nxt), Tok("stored", n, nxt) >>
                                 \o todo
    /\ UNCHANGED << constructed, call, err, io, sub, cache, pre, retv, devs,
                    prog, calls >>
    /\ UNCHANGED gets
    /\ UNCHANGED varsA

\* The cache follows each completed write.
FwStored ==
    /\ Is("stored")
    /\ cache' = [cache EXCEPT ![Head1.n] = << Head1.v >>]
    /\ todo' = Tail(todo)
    /\ UNCHANGED << constructed, call, err, io, sub, pre, retv, devs, prog,
                    calls >>
    /\ UNCHANGED gets
    /\ UNCHANGED varsA

\* ---- The driver's do_set_* functions -----------------------------------
DoSet ==
    /\ Is("do_set")
    /\ LET n == Head1.n
           v == Head1.v
       IN  IF n = "status" /\ ~do_set_status_accepts(v)
           THEN Raise("ValueError") /\ sub' = sub
           ELSE /\ todo' = (IF n = "voltage" THEN do_set_voltage(v)
                            ELSE IF n = "range" THEN do_set_range(v)
                            ELSE IF n = "current_limit" THEN do_set_current_limit(v)
                            ELSE do_set_status(v))
                           \o Tail(todo)
                /\ sub' = IF n = "voltage" THEN Append(sub, v) ELSE sub
                /\ UNCHANGED << err, constructed >>
    /\ UNCHANGED << call, io, cache, pre, retv, devs, prog, calls >>
    /\ UNCHANGED gets
    /\ UNCHANGED varsA

\* ---- Instrument base class: get (specification 4.2) --------------------
FwGet ==
    /\ Is("get")
    /\ IF ~Descriptor(Head1.n).canGet THEN Raise("AccessDenied")
       ELSE /\ todo' = do_get(Head1.n) \o << Tok("got", Head1.n, 0) >> \o Tail(todo)
            /\ UNCHANGED << err, constructed >>
    /\ UNCHANGED << call, io, sub, cache, pre, retv, devs, prog, calls >>
    /\ gets' = Append(gets, Head1.n)
    /\ UNCHANGED varsA

\* The regex / float() part of do_get_<name>
Parse ==
    /\ Is("parse")
    /\ retv' = << Parsed(Head1.n, devs) >>
    /\ todo' = Tail(todo)
    /\ UNCHANGED << constructed, call, err, io, sub, cache, pre, devs, prog,
                    calls >>
    /\ UNCHANGED gets
    /\ UNCHANGED varsA

\* The value read is validated against the bounds and cached.
FwGot ==
    /\ Is("got")
    /\ IF InBounds(Descriptor(Head1.n), retv[1])
       THEN /\ cache' = [cache EXCEPT ![Head1.n] = retv]
            /\ todo' = Tail(todo)
            /\ UNCHANGED << err, constructed >>
       ELSE Raise("ProtocolError") /\ cache' = cache
    /\ UNCHANGED << call, io, sub, pre, retv, devs, prog, calls >>
    /\ UNCHANGED gets
    /\ UNCHANGED varsA

\* ---- Device Channel (visa) ---------------------------------------------
IoRec(ok) == [k |-> Head1.t, cmd |-> Head1.n, v |-> Head1.v, ok |-> ok]

ChanWrite ==
    /\ Is("w")
    /\ io' = Append(io, IoRec(TRUE))
    /\ devs' = DevAfter(Head1.n, Head1.v, devs, prog)
    /\ prog' = ProgAfter(Head1.n, Head1.v, prog)
    /\ todo' = Tail(todo)
    /\ UNCHANGED << constructed, call, err, sub, cache, pre, retv, calls >>
    /\ UNCHANGED gets
    /\ UNCHANGED varsA

ChanAsk ==
    /\ Is("ask")
    /\ io' = Append(io, IoRec(TRUE))
    /\ todo' = Tail(todo)
    /\ UNCHANGED << constructed, call, err, sub, cache, pre, retv, devs, prog,
                    calls >>
    /\ UNCHANGED gets
    /\ UNCHANGED varsA

ChanRead ==
    /\ Is("rd")
    /\ io' = Append(io, IoRec(TRUE))
    /\ todo' = Tail(todo)
    /\ UNCHANGED << constructed, call, err, sub, cache, pre, retv, devs, prog,
                    calls >>
    /\ UNCHANGED gets
    /\ UNCHANGED varsA

\* (variant: the exception is swallowed and the call carries on)
ChanFail_swallowed ==
    /\ Running
    /\ Head1.t \in {"w", "ask", "rd"}
    /\ io' = Append(io, IoRec(FALSE))
    /\ todo' = Tail(todo)
    /\ UNCHANGED << constructed, err >>
    /\ UNCHANGED << call, sub, cache, pre, retv, devs, prog, calls >>
    /\ UNCHANGED gets
    /\ UNCHANGED varsA

\* A write, ask or read raises (timeout, bus error).
ChanFail ==
    /\ Running
    /\ Head1.t \in {"w", "ask", "rd"}
    /\ io' = Append(io, IoRec(FALSE))
    /\ Raise("CommunicationError")
    /\ UNCHANGED << call, sub, cache, pre, retv, devs, prog, calls >>
    /\ UNCHANGED gets
    /\ UNCHANGED varsA

NextY ==
    \/ Construct
    \/ CallSet
    \/ CallGet
    \/ CallGetAll
    \/ CallReset
    \/ CallSetToZero
    \/ CallOn
    \/ CallOff
    \/ ReturnY
    \/ FwSet
    \/ FwRamp
    \/ FwStored
    \/ DoSet
    \/ FwGet
    \/ Parse
    \/ FwGot
    \/ ChanWrite
    \/ ChanAsk
    \/ ChanRead
    \/ ChanFail

----------------------------------------------------------------------------
\* Specifications

NextA ==
    \/ ProgA
    \/ DeviceFinish
    \/ DeviceFault

\* The acquisition engine: the arguments of the call and the state the
\* camera is found in are arbitrary.
InitA ==
    /\ op \in {"get_spectrum_adv", "wait_idle"}
    /\ pcA = "call"
    /\ ntries \in 0 .. MaxTries
    /\ background \in Backgrounds
    /\ thresh \in ThreshPcts
    /\ delay \in 0 .. MaxDelay
    /\ elapsed = 0
    /\ i = 0
    /\ xpix = 0
    /\ data = << >>
    /\ spec = Unbound
    /\ maxpos = Unbound
    /\ verdict = "none"
    /\ ret = << >>
    /\ warned = FALSE
    /\ exc = "none"
    /\ dev \in {"idle", "acquiring", "error"}
    /\ devData = << >>
    /\ owner = IF dev = "acquiring" THEN "other" ELSE "nobody"
    /\ nstart = 0
    /\ nfetch = 0
    \* inputs that the chosen call does not read are fixed
    /\ op = "wait_idle" =>
          ntries = 0 /\ background = NoBackground /\ thresh = DefaultThreshPct
    /\ op = "get_spectrum_adv" => delay = 0
    \* the voltage source is not in use
    /\ constructed = "no"
    /\ call = NoCall
    /\ todo = << >>
    /\ err = "none"
    /\ io = << >>
    /\ sub = << >>
    /\ cache = EmptyCache
    /\ pre = EmptyCache
    /\ retv = << >>
    /\ devs = DevDefaults
    /\ prog = DevDefaults
    /\ calls = 0
    /\ gets = << >>

SpecA == InitA /\ [][NextA]_vars

\* The interpreter always runs the next statement of the call; nothing is
\* assumed about the camera.
FairSpecA == SpecA /\ WF_vars(ProgA)

\* The voltage source driver, with the camera unused.
SpecY == InitY /\ [][NextY]_vars

----------------------------------------------------------------------------
\* Properties of the acquisition engine (andor.py)

Adv == op = "get_spectrum_adv"

\* C1: when all ntries >= 1 attempts were rejected by the heuristic,
\* get_spectrum_adv returns normally: no exception, the returned frame is the
\* (background-subtracted) last captured frame, the warning flag is set and
\* the number of acquisitions equals ntries -- for every position of the
\* suspected spike.
C1_ExhaustionReturnsLastFrame ==
    (Adv /\ ntries >= 1 /\ i = ntries /\ pcA \in Terminal) =>
        /\ pcA = "done"
        /\ exc = "none"
        /\ ret = Subtract(data, background)
        /\ warned
        /\ nstart = ntries

\* C2: for an evaluated frame whose maximum is at or above the floor, the
\* frame is accepted iff maxpos is the first or the last index or one of the
\* two neighbours is >= maxval * thresh; it is rejected exactly when the peak
\* is interior and both neighbours are below that value.
C2_AnomalyHeuristic ==
    (verdict # "none" /\ spec # << >> /\
     \E p \in DOMAIN spec : spec[p] >= 100) =>
        LET mp == maxpos[1]
            last == FLen(spec) - 1
            C2_Support(q) ==
                \E p \in DOMAIN spec :
                    p = q /\ 100 * spec[p] >= thresh * spec[mp]
        IN  /\ verdict \in {"ok", "bad"}
            /\ \A p \in DOMAIN spec : spec[p] <= spec[mp]
            /\ verdict = "ok" <=>
                 (mp = 0 \/ mp = last \/ C2_Support(mp - 1) \/ C2_Support(mp + 1))
            /\ verdict = "bad" <=>
                 (0 < mp /\ mp < last /\ ~C2_Support(mp - 1) /\ ~C2_Support(mp + 1))
            /\ (verdict = "bad" /\ pcA = "done") => warned

\* An interior peak supported only by its right neighbour, which is exactly
\* at maxval * thresh, has been accepted.
C2_Witness ==
    /\ verdict = "ok"
    /\ maxpos # Unbound
    /\ 0 < maxpos[1] /\ maxpos[1] < FLen(spec) - 1
    /\ 100 * spec[maxpos[1] + 1] = thresh * spec[maxpos[1]]
    /\ 100 * spec[maxpos[1] - 1] < thresh * spec[maxpos[1]]
    /\ pcA = "done"

\* C3: if attempts 1..k-1 were rejected and attempt k is accepted, the call
\* returns attempt k's frame without the warning after exactly k
\* acquisitions (k <= ntries); the number of start/await/retrieve sequences
\* never exceeds ntries.
C3_RejectThenRecover ==
    Adv =>
        /\ nstart <= ntries
        /\ nfetch <= nstart
        /\ (pcA = "done" /\ ~warned) =>
              /\ verdict \in {"low", "ok"}
              /\ ret = Subtract(data, background)
              /\ nstart = i + 1
              /\ nfetch = nstart
              /\ exc = "none"

\* The first attempt was rejected and the second one accepted.
C3_Witness ==
    /\ Adv /\ pcA = "done" /\ ~warned
    /\ i = 1 /\ nstart = 2 /\ ntries = 2
    /\ verdict = "ok"

\* C4: a frame whose maximum after background subtraction is below the
\* low-signal floor is returned on the attempt that captured it, without the
\* warning and without the neighbour test, whatever its neighbours and thresh.
C4_LowSignalAccepted ==
    (Adv /\ verdict # "none" /\ spec # << >> /\
     \A p \in DOMAIN spec : spec[p] < LowSignalFloor) =>
        /\ verdict = "low"
        /\ pcA = "done"
        /\ ret = spec
        /\ ~warned
        /\ nstart = i + 1

\* A low frame with an unsupported interior peak is returned by the second
\* attempt.
C4_Witness ==
    /\ Adv /\ verdict = "low" /\ pcA = "done" /\ i = 1
    /\ \E p \in DOMAIN spec :
          /\ 0 < p /\ p < FLen(spec) - 1
          /\ spec[p] > 0
          /\ spec[p - 1] <= 0 /\ spec[p + 1] <= 0

\* C5: every call ends -- the wait for completion is bounded even when the
\* camera reports 'acquiring' for ever.
C5_BoundedWait == <>(pcA \in Terminal)
----------------------------------------------------------------------------
\* Properties of the parameter registry and the ramp (x_Yokogawa_7651.py)

\* The running (or last) call ramps the voltage to an admissible target:
\* set_voltage(v) or set_to_zero() on a driver whose voltage is known.
RampCall ==
    /\ call.op \in {"set", "set_to_zero"}
    /\ call.n = "voltage"
    /\ LowerLim <= call.v /\ call.v <= UpperLim
    /\ pre["voltage"] # << >>

\* C6: set(name, v) on range (10 mV .. 10 V), voltage (lowerlim .. upperlim)
\* or current_limit (5 .. 120 mA) is rejected with OutOfRange iff v is
\* outside the bounds; a rejected set issues no channel operation and leaves
\* the cache unchanged; an admissible set succeeds when the channel and the
\* read-back do not fail.
C6_ValidationBeforeIO ==
    (call.op = "set" /\ call.n \in {"range", "voltage", "current_limit"}) =>
        LET lower == IF call.n = "range" THEN RangeMin
                     ELSE IF call.n = "voltage" THEN LowerLim ELSE LimitMin
            upper == IF call.n = "range" THEN RangeMax
                     ELSE IF call.n = "voltage" THEN UpperLim ELSE LimitMax
            inr == lower <= call.v /\ call.v <= upper
            allok == \A k \in DOMAIN io : io[k].ok
        IN  /\ ~inr => (io = << >> /\ sub = << >> /\ cache = pre /\
                        err \in {"none", "OutOfRange"})
            /\ (~inr /\ ~Running) => err = "OutOfRange"
            /\ err = "OutOfRange" => ~inr
            /\ err = "ok" => (inr /\ allok)
            /\ (inr /\ ~Running /\ allok /\ err # "ProtocolError") => err = "ok"

\* An out-of-range voltage was rejected on a driver that knows its values.
C6_Witness ==
    /\ call.op = "set" /\ call.n = "voltage" /\ call.v = UpperLim + 1
    /\ err = "OutOfRange"
    /\ io = << >>
    /\ cache["voltage"] # << >>

C9_RampIdempotent ==
    (RampCall /\ pre["voltage"] = << call.v >>) =>
        /\ sub = << >>
        /\ \A k \in DOMAIN io : io[k].k # "w"

\* set_to_zero has completed on a driver whose voltage was already 0.
C9_Witness ==
    /\ call.op = "set_to_zero" /\ pre["voltage"] = << 0 >>
    /\ err = "ok"
    /\ io # << >>

\* C10: a failing write ends the ramp with CommunicationError, nothing is
\* issued after it, and the last-known value is the last sub-step that was
\* written completely (the original value if there is none).
C10_RampFailInPlace ==
    RampCall =>
        /\ \A k \in DOMAIN io : k < Len(io) => io[k].ok
        /\ (io # << >> /\ ~io[Len(io)].ok) =>
              (~Running /\ err = "CommunicationError")
        /\ (io # << >> /\ ~io[Len(io)].ok /\ io[Len(io)].k = "w") =>
              cache["voltage"] =
                  (IF Len(sub) <= 1 THEN pre["voltage"]
                   ELSE << sub[Len(sub) - 1] >>)

\* The third sub-step of a ramp failed: the value is neither the original
\* one nor the target.
C10_Witness ==
    /\ RampCall /\ err = "CommunicationError"
    /\ Len(sub) = 3
    /\ io[Len(io)].k = "w" /\ ~io[Len(io)].ok
    /\ cache["voltage"] = << sub[2] >>
    /\ cache["voltage"] # pre["voltage"]
    /\ cache["voltage"] # << call.v >>

\* C11: after a successful set of range or voltage (FLAG_GET_AFTER_SET) the
\* writes are followed immediately by one read-back, nothing follows the
\* read-back, and the cached value is the value read back (what the
\* instrument holds), also when it differs from the requested value; a
\* successful set of current_limit issues no read and caches the request.
C11_PostWriteConfirmation ==
    (call.op = "set" /\ err = "ok") =>
        /\ call.n \in {"range", "voltage"} =>
              /\ gets = << call.n >>
              /\ retv = << Parsed(call.n, devs) >>
              /\ cache[call.n] = retv
              /\ \E a \in DOMAIN io :
                    /\ io[a].k = "ask"
                    /\ \A k \in DOMAIN io : k < a => io[k].k = "w"
                    /\ \A k \in DOMAIN io : k > a => io[k].k = "rd"
        /\ call.n = "current_limit" =>
              /\ gets = << >>
              /\ \A k \in DOMAIN io : io[k].k = "w"
              /\ cache[call.n] = << call.v >>

\* set_range(50 mV) selected the 100 mV decade and set_voltage of a value
\* with eight significant digits was rounded by '%+E': in both cases the
\* cache holds the value read back, not the request.
C11_Witness ==
    /\ call.op = "set" /\ err = "ok"
    /\ call.n \in {"range", "voltage"}
    /\ cache[call.n] # << call.v >>
    /\ cache[call.n] = << Parsed(call.n, devs) >>
    /\ \E k \in DOMAIN io : io[k].k = "w"

\* C12: at every moment each last-known value of range, voltage and
\* current_limit is unknown or within the declared bounds; ProtocolError is
\* raised exactly for a value read outside the bounds, which is not stored:
\* with the instrument on R6 the range comes back as 30 V, above the maximum
\* of 10 V, and the read is rejected.
C12_CacheInvariant ==
    LET lower(n) == IF n = "range" THEN RangeMin
                    ELSE IF n = "voltage" THEN LowerLim ELSE LimitMin
        upper(n) == IF n = "range" THEN RangeMax
                    ELSE IF n = "voltage" THEN UpperLim ELSE LimitMax
        within(n, x) == lower(n) <= x /\ x <= upper(n)
        last == gets[Len(gets)]
        allok == \A k \in DOMAIN io : io[k].ok
    IN  /\ \A n \in {"range", "voltage", "current_limit"} :
              cache[n] = << >> \/ within(n, cache[n][1])
        /\ err = "ProtocolError" =>
              /\ gets # << >>
              /\ retv = << Parsed(last, devs) >>
              /\ ~within(last, retv[1])
              /\ cache[last] # retv
              /\ (last = "range" /\ devs.r = 6) => retv = << 30000 >>
        /\ (~Running /\ gets # << >> /\ allok /\ constructed # "no") =>
              (err = "ProtocolError" <=> ~within(last, Parsed(last, devs)))

\* The driver was created on an instrument set to R6: the voltage was read
\* and cached, the range read was rejected and is still unknown.
C12_Witness ==
    /\ err = "ProtocolError"
    /\ devs.r = RangeCode30V
    /\ gets = << "voltage", "range" >>
    /\ cache["voltage"] # << >>
    /\ cache["range"] = << >>

\* The call is get_all(), or the constructor without reset, whose body is
\* get_all().
GetAllCall ==
    \/ call.op = "get_all"
    \/ call.op = "__init__" /\ call.n = "noreset"

\* C13 (as stated): get_all reads the read-accessible parameters once each in
\* declaration order -- range, voltage, current_limit -- and never status;
\* when a read fails, the parameters read before it hold the new values and
\* the failing and the remaining ones keep their previous entries.
C13_DeclarationOrder ==
    GetAllCall =>
        LET order == SelectSeq(ParamNames, LAMBDA x : Descriptor(x).canGet)
            n == Len(gets)
            failed == ~Running /\ err # "ok"
            unread == {order[k] : k \in (n + 1) .. Len(order)}
        IN  /\ n <= Len(order)
            /\ \A k \in 1 .. n : gets[k] = order[k]
            /\ err = "ok" => n = Len(order)
            /\ err \in {"none", "ok", "CommunicationError", "ProtocolError"}
            /\ \A k \in 1 .. n :
                  (k < n \/ err = "ok") =>
                      cache[gets[k]] = << Parsed(gets[k], devs) >>
            /\ failed => (n >= 1 /\ cache[gets[n]] = pre[gets[n]])
            /\ \A x \in unread \cup {"status"} : cache[x] = pre[x]
            /\ \A k \in DOMAIN io : io[k].k # "w"

\* C13 (amended): the same, with the order written in get_all -- voltage,
\* range, current_limit.
C13_GetAllOrder ==
    GetAllCall =>
        LET order == << "voltage", "range", "current_limit" >>
            n == Len(gets)
            failed == ~Running /\ err # "ok"
            unread == {order[k] : k \in (n + 1) .. Len(order)}
        IN  /\ n <= Len(order)
            /\ \A k \in 1 .. n : gets[k] = order[k]
            /\ err = "ok" => n = Len(order)
            /\ err \in {"none", "ok", "CommunicationError", "ProtocolError"}
            /\ \A k \in 1 .. n :
                  (k < n \/ err = "ok") =>
                      cache[gets[k]] = << Parsed(gets[k], devs) >>
            /\ failed => (n >= 1 /\ cache[gets[n]] = pre[gets[n]])
            /\ \A x \in unread \cup {"status"} : cache[x] = pre[x]
            /\ \A k \in DOMAIN io : io[k].k # "w"

\* get_all failed in its third read: the range holds the value just read,
\* which differs from the entry before the call, and the current limit was
\* left alone.
C13_Witness ==
    /\ call.op = "get_all"
    /\ err = "CommunicationError"
    /\ gets = << "voltage", "range", "current_limit" >>
    /\ cache["range"] # pre["range"]
    /\ cache["range"] = << Parsed("range", devs) >>
    /\ cache["current_limit"] = pre["current_limit"]

\* C14: status is the only write-only parameter and no parameter is
\* read-only, at every moment; a get of a write-only parameter (a set of a
\* read-only one) ends with AccessDenied, issues no channel operation and
\* leaves the cache unchanged; AccessDenied is raised in no other case.
C14_AccessMode ==
    LET writeOnly == {"status"}
        readOnly == {}
        denied == \/ call.op = "get" /\ call.n \in writeOnly
                  \/ call.op = "set" /\ call.n \in readOnly
    IN  /\ \A n \in ParamSet :
              /\ Descriptor(n).canGet <=> n \notin writeOnly
              /\ Descriptor(n).canSet <=> n \notin readOnly
        /\ denied =>
              /\ io = << >>
              /\ sub = << >>
              /\ cache = pre
              /\ err \in {"none", "AccessDenied"}
              /\ ~Running => err = "AccessDenied"
        /\ err = "AccessDenied" => denied

\* get('status') was refused after the output had been switched on: the
\* cached status is still the one that was set.
C14_Witness ==
    /\ call.op = "get" /\ call.n = "status"
    /\ err = "AccessDenied"
    /\ io = << >>
    /\ cache["status"] = << << "o", "n" >> >>
    /\ devs.out = 1

----------------------------------------------------------------------------
\* Error handling of the acquisition engine (andor.py)

\* C15: a channel call of an attempt (start, status poll, buffer fetch) made
\* on a camera that answers with an error code ends get_spectrum_adv at once
\* with CommunicationError -- no further channel call, no further attempt, no
\* frame; and the loop goes round again only after the fetch delivered the
\* camera's frame.
C15_FailureEndsCall ==
    [][Adv =>
          /\ (dev = "error" /\ pcA \in {"start", "poll", "fetch"} /\ pcA' # pcA) =>
                /\ pcA' = "raised"
                /\ exc' = "CommunicationError"
                /\ ret' = << >>
          /\ (pcA = "eval" /\ pcA' = "for") =>
                (data = devData /\ devData # << >>)]_vars

\* C16: the wait is left for the fetch only when the poll found the camera
\* ready with an acquisition that this attempt started, and the buffer is
\* never fetched from a camera that is acquiring or in error.
C16_RetrieveOnlyFromReady ==
    [][Adv =>
          /\ (pcA = "poll" /\ pcA' = "settle") =>
                (dev = "idle" /\ owner = "self" /\ devData # << >>)
          /\ (pcA = "fetch" /\ pcA' = "eval") =>
                dev \notin {"acquiring", "error"}]_vars

\* C17: start_acquisition on a camera that is already acquiring ends the
\* call with DeviceBusy instead of entering the wait, and no fetch hands out
\* the frame of an acquisition that somebody else started.
C17_DeviceBusyOnStart ==
    [][Adv =>
          /\ (pcA = "start" /\ dev = "acquiring" /\ pcA' # pcA) =>
                (pcA' = "raised" /\ exc' = "DeviceBusy")
          /\ (pcA = "fetch" /\ pcA' = "eval") =>
                ~(owner = "other" /\ devData # << >> /\ data' = devData)]_vars

----------------------------------------------------------------------------
\* Properties of the driver's own functions (x_Yokogawa_7651.py)

\* The call is reset(), or the constructor with reset=True, whose body is
\* reset().
ResetCall ==
    \/ call.op = "reset"
    \/ call.op = "__init__" /\ call.n = "reset"

\* C18: in reset() 'RC' is written at most once and only after set_to_zero
\* has completed: every ramp value was written ('S' then 'E'), the last one
\* is 0 V, nothing before 'RC' failed and the read-back of the voltage is the
\* operation just before it; 'O1' and 'E' follow 'RC' directly and are
\* written nowhere else; after them come only the reads of get_all, which
\* end the call.
C18_ResetOrdering ==
    ResetCall =>
        LET isW(k, c) == io[k].k = "w" /\ io[k].cmd = c
            rc == {k \in DOMAIN io : isW(k, "RC")}
            sBefore(k) == {j \in 1 .. (k - 1) : isW(j, "S")}
        IN  /\ Cardinality(rc) <= 1
            /\ \A k \in rc :
                  /\ \A j \in 1 .. (k - 1) :
                        /\ io[j].ok
                        /\ isW(j, "S") \/ isW(j, "E") \/ io[j].k = "ask"
                        /\ isW(j, "S") => isW(j + 1, "E")
                  /\ Cardinality(sBefore(k)) = Len(sub)
                  /\ sub = << >> \/ sub[Len(sub)] = 0
                  /\ k > 1 /\ io[k - 1].k = "ask" /\ io[k - 1].cmd = "OD"
                  /\ k + 1 \in DOMAIN io => (isW(k + 1, "O") /\ io[k + 1].v = 1)
                  /\ k + 2 \in DOMAIN io => isW(k + 2, "E")
                  /\ \A j \in DOMAIN io : j > k + 2 => io[j].k \in {"ask", "rd"}
            /\ \A j \in DOMAIN io : isW(j, "O") => j - 1 \in rc
            /\ err = "ok" =>
                  /\ rc # {}
                  /\ \A k \in rc : Len(io) = k + 2 + 11
                  /\ SubSeq(gets, Len(gets) - 2, Len(gets)) =
                         << "voltage", "range", "current_limit" >>

\* reset() has completed on a driver at 5 V: two ramp steps, then 'RC'.
C18_Witness ==
    /\ call.op = "reset" /\ err = "ok"
    /\ Len(sub) >= 2
    /\ \E k \in DOMAIN io : io[k].cmd = "RC" /\ k >= 6

\* The call hands a value to do_set_status: set('status', v), on() or off().
StatusCall ==
    \/ call.op = "set" /\ call.n = "status"
    \/ call.op \in {"on", "off"}

\* C19: do_set_status accepts a value iff it reads 'on' or 'off' when case
\* is ignored; for an accepted value it writes 'O1' (on) or 'O0' (off) and
\* then 'E' and nothing else; for any other value it raises ValueError and
\* writes nothing.
C19_StatusSet ==
    StatusCall =>
        LET val == IF call.op = "on" THEN << "o", "n" >>
                   ELSE IF call.op = "off" THEN << "o", "f", "f" >>
                   ELSE call.v
            low(c) == IF c = "O" THEN "o" ELSE IF c = "N" THEN "n"
                      ELSE IF c = "F" THEN "f" ELSE IF c = "E" THEN "e" ELSE c
            folded == [k \in DOMAIN val |-> low(val[k])]
            isOn == folded = << "o", "n" >>
            isOff == folded = << "o", "f", "f" >>
            allok == \A k \in DOMAIN io : io[k].ok
        IN  /\ ~(isOn \/ isOff) =>
                  /\ io = << >>
                  /\ err \in {"none", "ValueError"}
                  /\ ~Running => err = "ValueError"
            /\ err = "ValueError" => ~(isOn \/ isOff)
            /\ (isOn \/ isOff) =>
                  /\ Len(io) <= 2
                  /\ Len(io) >= 1 =>
                        /\ io[1].k = "w" /\ io[1].cmd = "O"
                        /\ io[1].v = (IF isOn THEN 1 ELSE 0)
                  /\ Len(io) = 2 => (io[2].k = "w" /\ io[2].cmd = "E")
                  /\ (~Running /\ allok) => (err = "ok" /\ Len(io) = 2)
                  /\ err = "ok" => devs.out = (IF isOn THEN 1 ELSE 0)

\* set('status', 'Off') was accepted and switched off an output that was on.
C19_Witness ==
    /\ call.op = "set" /\ call.n = "status"
    /\ call.v = << "O", "f", "f" >>
    /\ err = "ok"
    /\ Len(io) = 2
    /\ pre["status"] = << << "o", "n" >> >>
    /\ devs.out = 0

\* C20: the constructor with reset=False issues queries and reads only --
\* 'OD' for the voltage, then 'OS' and four reads for the range and again for
\* the current limit -- and no write: the instrument's settings stay as they
\* were found; a constructor that wrote to the instrument was called with
\* reset=True, and a completed one with reset=True has written 'RC'.
C20_ConstructNoReset ==
    call.op = "__init__" =>
        LET wrote == \E k \in DOMAIN io : io[k].k = "w"
            os == << "ask", "rd", "rd", "rd", "rd" >>
            kinds == << "ask" >> \o os \o os
        IN  /\ call.n = "noreset" =>
                  /\ ~wrote
                  /\ sub = << >>
                  /\ devs \in DevInits /\ prog = devs
                  /\ Len(io) <= Len(kinds)
                  /\ \A k \in DOMAIN io :
                        /\ io[k].k = kinds[k]
                        /\ io[k].k = "ask" =>
                              io[k].cmd = (IF k = 1 THEN "OD" ELSE "OS")
                  /\ err = "ok" =>
                        /\ Len(io) = Len(kinds)
                        /\ gets = << "voltage", "range", "current_limit" >>
            /\ wrote => call.n = "reset"
            /\ (call.n = "reset" /\ err = "ok") =>
                  \E k \in DOMAIN io : io[k].k = "w" /\ io[k].cmd = "RC"

\* A driver was created without reset on an instrument that sources 5 V: the
\* instrument still sources 5 V and the driver knows it.
C20_Witness ==
    /\ call.op = "__init__" /\ call.n = "noreset"
    /\ constructed = "yes"
    /\ devs.v = 5000000
    /\ cache["voltage"] = << 5000000 >>
    /\ Len(io) = 11

====
